---- MODULE Spec2Model ----
(***************************************************************************)
(* QR-marker indoor navigation: the building graph, the route planner and  *)
(* the per-frame navigation session (NavigationProcessor).                 *)
(*                                                                         *)
(* Conventions                                                             *)
(*   - Python None is the string None for ids, NoLocation for a            *)
(*     LocationInfo, <<>> for a path (the code only tests paths for        *)
(*     truthiness and never stores an empty list).                         *)
(*   - Coordinates are the map's coordinates times CoordScale, so that     *)
(*     all of them are integers; an edge weight is the Euclidean distance  *)
(*     in units of 1/(CoordScale*WeightScale), rounded down.               *)
(***************************************************************************)
EXTENDS Integers, Sequences, FiniteSets, TLC

None == "None"

(* ---------------- bounds of the model ---------------- *)
\* the building is made of the first MaxNodes locations of NodeOrder
MaxNodes == 3
\* at most MaxDropped of them are missing from BuildingMap.nodes
MaxDropped == 1
\* a frame shows at most MaxTargets markers
MaxTargets == 2
\* the number of nodes of the small graphs the planner is tried on
MaxFixtureNodes == 3
\* the number of markers the decoder finds in the images of one frame
MaxDecoded == 3

(* ---------------- map_building.py ---------------- *)
CoordScale == 40
WeightScale == 10
Inf == 1000000000

\* BuildingMap.nodes: <<location_id, x * CoordScale, y * CoordScale>>
NodeTable ==
    << <<"N_G_LAB_101", 60, 88>>,      <<"N_G_LAB_102", 180, 88>>,
       <<"N_G_OFFICE_103", 300, 88>>,  <<"N_G_OFFICE_104", 540, 88>>,
       <<"N_G_OFFICE_105", 660, 88>>,  <<"N_G_OFFICE_106", 780, 88>>,
       <<"N_G_OFFICE_107", 900, 88>>,  <<"N_G_RESTROOM_F", 75, 232>>,
       <<"N_G_RESTROOM_M", 120, 232>>, <<"N_G_OFFICE_112B", 180, 232>>,
       <<"N_G_OFFICE_112A", 240, 232>>, <<"N_G_OFFICE_111", 315, 232>>,
       <<"N_G_OFFICE_110B", 510, 232>>, <<"N_G_OFFICE_110A", 570, 232>>,
       <<"N_G_OFFICE_109A", 630, 232>>, <<"N_G_OFFICE_109B", 690, 232>>,
       <<"N_G_RESTROOM_F2", 750, 232>>, <<"N_G_RESTROOM_M2", 810, 232>>,
       <<"N_G_OFFICE_108", 900, 232>>, <<"N_G_STAIR_1", 420, 88>>,
       <<"N_G_SITTING_2", 420, 160>>,  <<"N_G_STAIR_2", 420, 160>>,
       <<"N_G_STAIR_3", 30, 232>>,     <<"N_G_SITTING_1", 420, 232>>,
       <<"N_G_OTHER", 990, 160>> >>

\* bottom_rooms + top_rooms + special_areas: <<location_id, name>>
RoomTable ==
    << <<"N_G_LAB_101", "N101">>,       <<"N_G_LAB_102", "N102">>,
       <<"N_G_OFFICE_103", "N103">>,    <<"N_G_OFFICE_104", "N104">>,
       <<"N_G_OFFICE_105", "N105">>,    <<"N_G_OFFICE_106", "N106">>,
       <<"N_G_OFFICE_107", "N107">>,    <<"N_G_RESTROOM_F", "NFT1">>,
       <<"N_G_RESTROOM_M", "NFT2">>,    <<"N_G_OFFICE_112B", "N112B">>,
       <<"N_G_OFFICE_112A", "N112A">>,  <<"N_G_OFFICE_111", "N111">>,
       <<"N_G_OFFICE_110B", "N110B">>,  <<"N_G_OFFICE_110A", "N110A">>,
       <<"N_G_OFFICE_109A", "N109A">>,  <<"N_G_OFFICE_109B", "N109B">>,
       <<"N_G_RESTROOM_F2", "NFT4">>,   <<"N_G_RESTROOM_M2", "NFT5">>,
       <<"N_G_OFFICE_108", "N108">>,    <<"N_G_STAIR_1", "Stair 1">>,
       <<"N_G_SITTING_2", "Sitting area 2">>, <<"N_G_STAIR_2", "Stair 2">>,
       <<"N_G_STAIR_3", "Stair 3">>,    <<"N_G_SITTING_1", "Sitting area 1">>,
       <<"N_G_OTHER", "Other area">> >>

AllIds == {NodeTable[i][1] : i \in 1..Len(NodeTable)}

\* BuildingMap.nodes as a mapping
NodeCoords ==
    [id \in AllIds |->
        LET i == CHOOSE k \in 1..Len(NodeTable) : NodeTable[k][1] = id
        IN  <<NodeTable[i][2], NodeTable[i][3]>>]

\* the coordinates BuildingMap.nodes gives a location
Coord(id) == NodeCoords[id]

\* the room lists as a mapping from location_id to name
RoomNames ==
    [id \in {RoomTable[i][1] : i \in 1..Len(RoomTable)} |->
        LET i == CHOOSE k \in 1..Len(RoomTable) : RoomTable[k][1] = id
        IN  RoomTable[i][2]]

\* the display name the room lists give a location
RoomName(id) == RoomNames[id]

\* the order Python compares the location ids in (str.__lt__), which is
\* how heapq breaks ties between entries of equal distance; A..E are the
\* ids of the small graphs the planner is tried on
SortedIds ==
    << "A", "B", "C", "D", "E",
       "N_G_LAB_101", "N_G_LAB_102", "N_G_OFFICE_103", "N_G_OFFICE_104",
       "N_G_OFFICE_105", "N_G_OFFICE_106", "N_G_OFFICE_107", "N_G_OFFICE_108",
       "N_G_OFFICE_109A", "N_G_OFFICE_109B", "N_G_OFFICE_110A",
       "N_G_OFFICE_110B", "N_G_OFFICE_111", "N_G_OFFICE_112A",
       "N_G_OFFICE_112B", "N_G_OTHER", "N_G_RESTROOM_F", "N_G_RESTROOM_F2",
       "N_G_RESTROOM_M", "N_G_RESTROOM_M2", "N_G_SITTING_1", "N_G_SITTING_2",
       "N_G_STAIR_1", "N_G_STAIR_2", "N_G_STAIR_3" >>

StrRanks == [id \in {SortedIds[k] : k \in 1..Len(SortedIds)} |-> CHOOSE k \in 1..Len(SortedIds) : SortedIds[k] = id]

StrRank(id) == StrRanks[id]

\* the part of the building the model explores: the central stair well
\* first (it has a cycle and the zero-length edge SITTING_2 - STAIR_2)
NodeOrder ==
    << "N_G_STAIR_1", "N_G_SITTING_2", "N_G_STAIR_2", "N_G_OFFICE_104",
       "N_G_OFFICE_105", "N_G_SITTING_1", "N_G_OFFICE_110B", "N_G_OFFICE_110A",
       "N_G_OFFICE_103", "N_G_OFFICE_106" >>

Universe == {NodeOrder[i] : i \in 1..MaxNodes}

\* the possible values of BuildingMap.nodes: the universe less at most
\* MaxDropped locations
Buildings ==
    {[id \in ids |-> Coord(id)] :
        ids \in {U \in SUBSET Universe : Cardinality(Universe \ U) <= MaxDropped}}

(* ---------------- route_guidance.py: the graph ---------------- *)
RECURSIVE SqrtSearch(_, _, _)
SqrtSearch(n, lo, hi) ==
    IF lo >= hi THEN lo
    ELSE LET mid == (lo + hi + 1) \div 2
         IN  IF mid * mid <= n THEN SqrtSearch(n, mid, hi)
             ELSE SqrtSearch(n, lo, mid - 1)

\* math.sqrt((x2 - x1)**2 + (y2 - y1)**2), in weight units, rounded down
EuclidDist(p1, p2) ==
    LET dx == p2[1] - p1[1]
        dy == p2[2] - p1[2]
        sq == (dx * dx + dy * dy) * WeightScale * WeightScale
    IN  SqrtSearch(sq, 0, 40000)

horizontal_bottom ==
    << "N_G_LAB_101", "N_G_LAB_102", "N_G_OFFICE_103", "N_G_STAIR_1",
       "N_G_OFFICE_104", "N_G_OFFICE_105", "N_G_OFFICE_106", "N_G_OFFICE_107" >>

horizontal_top ==
    << "N_G_STAIR_3", "N_G_RESTROOM_F", "N_G_RESTROOM_M", "N_G_OFFICE_112B",
       "N_G_OFFICE_112A", "N_G_OFFICE_111", "N_G_SITTING_1", "N_G_OFFICE_110B",
       "N_G_OFFICE_110A", "N_G_OFFICE_109A", "N_G_OFFICE_109B",
       "N_G_RESTROOM_F2", "N_G_RESTROOM_M2", "N_G_OFFICE_108" >>

vertical_connections ==
    << <<"N_G_LAB_101", "N_G_STAIR_3">>,   <<"N_G_STAIR_1", "N_G_SITTING_2">>,
       <<"N_G_SITTING_2", "N_G_STAIR_2">>, <<"N_G_STAIR_2", "N_G_SITTING_1">>,
       <<"N_G_OFFICE_107", "N_G_OFFICE_108">>, <<"N_G_OFFICE_108", "N_G_OTHER">> >>

special_connections ==
    << <<"N_G_SITTING_2", "N_G_OFFICE_104">>, <<"N_G_SITTING_2", "N_G_OFFICE_105">>,
       <<"N_G_STAIR_2", "N_G_OFFICE_110B">>,  <<"N_G_STAIR_2", "N_G_OFFICE_110A">> >>

\* the pairs (path[i], path[i+1]) of a corridor
CorridorPairs(path) == [i \in 1..(Len(path) - 1) |-> <<path[i], path[i + 1]>>]

\* the add_connection calls of _build_graph, in the order it makes them
ConnectionRequests ==
    CorridorPairs(horizontal_bottom) \o CorridorPairs(horizontal_top)
        \o vertical_connections \o special_connections

\* the edge stored at loc1 only
add_connection_oneway(g, nds, loc1, loc2) ==
    IF loc1 \notin DOMAIN nds \/ loc2 \notin DOMAIN nds
    THEN g
    ELSE [g EXCEPT ![loc1] = Append(@, <<loc2, EuclidDist(nds[loc1], nds[loc2])>>)]

\* add_connection(loc1, loc2) on the graph g of the building nds
add_connection(g, nds, loc1, loc2) ==
    IF loc1 \notin DOMAIN nds \/ loc2 \notin DOMAIN nds
    THEN g
    ELSE LET dist == EuclidDist(nds[loc1], nds[loc2])
             g1 == [g EXCEPT ![loc1] = Append(@, <<loc2, dist>>)]
         IN  [g1 EXCEPT ![loc2] = Append(@, <<loc1, dist>>)]

RECURSIVE AddConnections(_, _, _, _)
AddConnections(g, nds, reqs, i) ==
    IF i > Len(reqs) THEN g
    ELSE AddConnections(add_connection(g, nds, reqs[i][1], reqs[i][2]),
                        nds, reqs, i + 1)

\* RouteGuidance._build_graph: node -> list of <<neighbour, weight>>
_build_graph(nds) ==
    AddConnections([id \in DOMAIN nds |-> <<>>], nds, ConnectionRequests, 1)

\* RouteGuidance._build_location_database: the keys and the names
_build_location_database(nds) ==
    LET ids == DOMAIN RoomNames \cap DOMAIN nds
    IN  [id \in ids |-> [location_id |-> id, location_name |-> RoomName(id),
                         coordinates |-> nds[id]]]

(* ---------------- route_guidance.py: the route planner ---------------- *)
\* heapq.heappop on (distance, node) tuples: the least distance, and among
\* equal distances the least node id in string order
HeapMin(pq) ==
    CHOOSE e \in pq : \A f \in pq :
        \/ e[1] < f[1]
        \/ e[1] = f[1] /\ StrRank(e[2]) <= StrRank(f[2])

\* a distance is recorded only for a node that had none
Improves_first(distance, known) == known = Inf

\* the statement `if distance < distances[neighbor]` of the search
Improves(distance, known) == distance < known

\* the loop over the neighbours of current_node (lines 180-189)
RECURSIVE RelaxNeighbours(_, _, _, _, _)
RelaxNeighbours(st, current_distance, current_node, adj, i) ==
    IF i > Len(adj) THEN st
    ELSE LET neighbor == adj[i][1]
             weight == adj[i][2]
             distance == current_distance + weight
             st1 == IF neighbor \in st.visited THEN st
                    ELSE IF Improves(distance, st.distances[neighbor])
                    THEN [st EXCEPT !.distances[neighbor] = distance,
                                    !.predecessors[neighbor] = current_node,
                                    !.pq = @ \cup {<<distance, neighbor>>}]
                    ELSE st
         IN  RelaxNeighbours(st1, current_distance, current_node, adj, i + 1)

\* the `while pq` loop (lines 167-189)
RECURSIVE DijkstraLoop(_, _, _)
DijkstraLoop(st, g, end_id) ==
    IF st.pq = {} THEN st
    ELSE LET top == HeapMin(st.pq)
             current_distance == top[1]
             current_node == top[2]
             popped == [st EXCEPT !.pq = @ \ {top}]
         IN  IF current_node \in st.visited THEN DijkstraLoop(popped, g, end_id)
             ELSE LET seen == [popped EXCEPT !.visited = @ \cup {current_node}]
                  IN  IF current_node = end_id THEN seen
                      ELSE DijkstraLoop(
                               RelaxNeighbours(seen, current_distance,
                                               current_node, g[current_node], 1),
                               g, end_id)

\* a walk back that leaves out every second node
RECURSIVE WalkBack_shortcut(_, _)
WalkBack_shortcut(predecessors, current_node) ==
    IF current_node = None THEN <<>>
    ELSE IF predecessors[current_node] = None THEN <<current_node>>
    ELSE IF predecessors[predecessors[current_node]] = None
    THEN <<current_node, predecessors[current_node]>>
    ELSE <<current_node>>
             \o WalkBack_shortcut(predecessors,
                                  predecessors[predecessors[current_node]])

\* the path reconstruction (lines 197-201): end_id first
RECURSIVE WalkBack(_, _)
WalkBack(predecessors, current_node) ==
    IF current_node = None THEN <<>>
    ELSE <<current_node>> \o WalkBack(predecessors, predecessors[current_node])

\* the path returned as it was walked back, end_id first
Reverse_omitted(s) == s

\* path[::-1]
Reverse(s) == [i \in 1..Len(s) |-> s[Len(s) + 1 - i]]

\* the test of the endpoints made after the test start_id == end_id
InvalidEndpoints_distinct(g, start_id, end_id) ==
    /\ start_id # end_id
    /\ start_id \notin DOMAIN g \/ end_id \notin DOMAIN g

\* line 151: start_id not in self.graph or end_id not in self.graph
InvalidEndpoints(g, start_id, end_id) ==
    start_id \notin DOMAIN g \/ end_id \notin DOMAIN g

\* an empty list for a search from a node to itself
TrivialPath_empty(start_id) == <<>>

\* line 156: return [start_id]
TrivialPath(start_id) == <<start_id>>

\* the test of line 192 left out
NoPathFound_skipped(distances, end_id) == FALSE

\* line 192: distances[end_id] == float('inf')
NoPathFound(distances, end_id) == distances[end_id] = Inf

\* RouteGuidance.find_shortest_path on the graph g; <<>> is None (a path
\* that is returned has at least one node)
find_shortest_path(g, start_id, end_id) ==
    IF InvalidEndpoints(g, start_id, end_id) THEN <<>>
    ELSE IF start_id = end_id THEN TrivialPath(start_id)
    ELSE LET st0 == [distances |-> [n \in DOMAIN g |-> IF n = start_id THEN 0 ELSE Inf],
                     predecessors |-> [n \in DOMAIN g |-> None],
                     pq |-> {<<0, start_id>>},
                     visited |-> {}]
             st == DijkstraLoop(st0, g, end_id)
         IN  IF NoPathFound(st.distances, end_id) THEN <<>>
             ELSE Reverse(WalkBack(st.predecessors, end_id))

\* the straight-line distance from the first to the last node of the path
PathDistance_straight(nds, path, i) ==
    EuclidDist(nds[path[1]], nds[path[Len(path)]])

\* the total_distance loop of prepare_navigation_data (lines 299-303)
RECURSIVE PathDistance(_, _, _)
PathDistance(nds, path, i) ==
    IF i >= Len(path) THEN 0
    ELSE EuclidDist(nds[path[i]], nds[path[i + 1]]) + PathDistance(nds, path, i + 1)

\* self.location_database.get(id, {}).get('location_name', id)
NameOf(db, id) == IF id \in DOMAIN db THEN db[id].location_name ELSE id

\* RouteGuidance._generate_step_by_step_instructions: the list of
\* <<kind, place>> it builds
_generate_step_by_step_instructions(db, path) ==
    IF path = <<>> THEN <<>>
    ELSE (IF Len(path) >= 2 THEN << <<"Starting from", NameOf(db, path[1])>> >> ELSE <<>>)
         \o [i \in 1..(Len(path) - 1) |-> <<"Proceed to", NameOf(db, path[i + 1])>>]
         \o << <<"Arrive at destination", NameOf(db, path[Len(path)])>> >>

\* the None that prepare_navigation_data returns; ok tells it from a result
NoNavData == [ok |-> FALSE, path |-> <<>>, total_distance |-> 0, instructions |-> <<>>]

\* the tests of the location database left out
UnknownLocation_ignored(db, id) == FALSE

\* lines 275 and 279: id not in self.location_database
UnknownLocation(db, id) == id \notin DOMAIN db

\* lines 285-312: what is returned once find_shortest_path has answered path
NavData(nds, db, path) ==
    IF path = <<>> THEN NoNavData
    ELSE [ok |-> TRUE, path |-> path,
          total_distance |-> PathDistance(nds, path, 1),
          instructions |-> _generate_step_by_step_instructions(db, path)]

\* RouteGuidance.prepare_navigation_data; NoNavData is None
prepare_navigation_data(nds, g, db, current_location_id, destination_id) ==
    IF current_location_id \in {None, ""} \/ destination_id \in {None, ""}
    THEN NoNavData
    ELSE IF UnknownLocation(db, current_location_id) THEN NoNavData
    ELSE IF UnknownLocation(db, destination_id) THEN NoNavData
    ELSE NavData(nds, db, find_shortest_path(g, current_location_id, destination_id))

(* ---------------- qr_detection.py / qr_decoder: one frame ---------------- *)
Unreadable == "unreadable"
NoCorners == 0

\* the distance estimates of the markers: estimate_distance of a marker of
\* 200 px (the reference size) and of one of 100 px
DistanceEstimates == {30, 60}

\* a detected marker (QRTarget) together with what its payload decodes to;
\* corners stands for the corner polygon: the position of the marker in the
\* list detect_qr_codes returned
QRTargets(i) ==
    [distance_estimate : DistanceEstimates, corners : {i},
     payload : {Unreadable} \cup Universe]

TargetLists ==
    UNION {{t \in [1..n -> UNION {QRTargets(i) : i \in 1..n}] :
                \A i \in 1..n : t[i].corners = i} : n \in 0..MaxTargets}

\* a camera frame: whether the buffer has the expected size, whether its
\* conversion or the detection raises (lines 68-72: an odd height makes
\* reshape raise, a marker without polygon makes detect_qr_codes divide by
\* zero), and the markers detect_qr_codes finds in it
Frames ==
    [buffer_ok : {TRUE}, raises : {FALSE}, targets : TargetLists]
        \cup [buffer_ok : {FALSE}, raises : {FALSE}, targets : {<<>>}]
        \cup [buffer_ok : {TRUE}, raises : {TRUE}, targets : {<<>>}]

NoTarget == [distance_estimate |-> Inf, corners |-> NoCorners, payload |-> Unreadable]

\* a later marker with the same estimate replaces the best one
RECURSIVE MinByDistance_last(_, _, _)
MinByDistance_last(targets, i, best) ==
    IF i > Len(targets) THEN best
    ELSE IF targets[i].distance_estimate <= best.distance_estimate
    THEN MinByDistance_last(targets, i + 1, targets[i])
    ELSE MinByDistance_last(targets, i + 1, best)

\* min(targets, key=lambda t: t.distance_estimate): a left-to-right scan
\* that replaces the best element only by a strictly smaller one
RECURSIVE MinByDistance(_, _, _)
MinByDistance(targets, i, best) ==
    IF i > Len(targets) THEN best
    ELSE IF targets[i].distance_estimate < best.distance_estimate
    THEN MinByDistance(targets, i + 1, targets[i])
    ELSE MinByDistance(targets, i + 1, best)

\* max(...) in the place of min(...)
RECURSIVE MaxByDistance(_, _, _)
MaxByDistance(targets, i, best) ==
    IF i > Len(targets) THEN best
    ELSE IF targets[i].distance_estimate > best.distance_estimate
    THEN MaxByDistance(targets, i + 1, targets[i])
    ELSE MaxByDistance(targets, i + 1, best)

get_nearest_qr_max(targets) ==
    IF targets = <<>> THEN NoTarget ELSE MaxByDistance(targets, 2, targets[1])

\* the first marker of the list in the place of the nearest
get_nearest_qr_first(targets) ==
    IF targets = <<>> THEN NoTarget ELSE targets[1]

\* QRDetectionModule.get_nearest_qr; NoTarget is None
get_nearest_qr(targets) ==
    IF targets = <<>> THEN NoTarget ELSE MinByDistance(targets, 2, targets[1])

NoLocation == [location_id |-> None, location_name |-> None, coordinates |-> <<0, 0>>]

\* QRDecoder.read_qr_code: the LocationInfo of a readable payload, else None
read_qr_code(target) ==
    IF target.payload = Unreadable THEN NoLocation
    ELSE [location_id |-> target.payload,
          location_name |-> RoomName(target.payload),
          coordinates |-> Coord(target.payload)]

(* ---------------- navigation_logic.py: NavigationProcessor ---------------- *)
VARIABLES
    guidance,           \* how the RouteGuidance was set up: "session", "installed" or "built"
    nodes,              \* guidance.nodes (BuildingMap.nodes)
    graph,              \* guidance.graph
    location_database,  \* guidance.location_database
    current_location,   \* self.current_location
    destination_id,     \* self.destination_id
    current_path,       \* self.current_path
    path_origin,        \* history: current_location.location_id when current_path was computed
    call,               \* history: the last call of the API, its plan attempts and its result
    frames_after_arrival \* history: frames handled since ARRIVED was returned for this destination (capped)

vars == <<guidance, nodes, graph, location_database, current_location, destination_id,
          current_path, path_origin, call, frames_after_arrival>>

\* the mutable fields of the session, as one value
Self ==
    [current_location |-> current_location, destination_id |-> destination_id,
     current_path |-> current_path, path_origin |-> path_origin]

\* a result dictionary; absent keys are None / <<>> / NoCorners
Result(status) ==
    [status |-> status, message |-> None, path |-> <<>>, location_id |-> None,
     location_name |-> None, next_waypoint_name |-> None, corners |-> NoCorners]

\* the guard of set_destination left out
LocationUnknown_omitted(self) == FALSE

\* not self.current_location
LocationUnknown(self) == self.current_location = NoLocation

\* nav_data and nav_data.get("path")
PlanSucceeded(nav_data) == nav_data.ok /\ nav_data.path # <<>>

\* lines 49 and 55: the destination and the planned path are stored
InstallPath(self, dest, path) ==
    [self EXCEPT !.destination_id = dest, !.current_path = path,
                 !.path_origin = self.current_location.location_id]

\* the failure branch without the assignment of line 49: the destination
\* of the dropped path is kept
ClearPath_destination(self, dest) ==
    [self EXCEPT !.current_path = <<>>, !.path_origin = None]

\* the failure branch without `self.current_path = None`
ClearPath_kept(self, dest) == [self EXCEPT !.destination_id = dest]

\* lines 49 and 60: the destination is stored and the path is dropped
ClearPath(self, dest) ==
    [self EXCEPT !.destination_id = dest, !.current_path = <<>>,
                 !.path_origin = None]

\* lines 54-61 of set_destination: what is stored and returned once
\* prepare_navigation_data has answered nav_data
PlanOutcome(self, dest, nav_data) ==
    IF PlanSucceeded(nav_data)
    THEN [self |-> InstallPath(self, dest, nav_data.path),
          ret |-> [Result("PATH_READY") EXCEPT
                      !.message = "Path calculated successfully.",
                      !.path = nav_data.path],
          plans |-> << <<self.current_location.location_id, dest>> >>]
    ELSE [self |-> ClearPath(self, dest),
          ret |-> [Result("ERROR") EXCEPT !.message = "Could not find a path."],
          plans |-> << <<self.current_location.location_id, dest>> >>]

\* NavigationProcessor.set_destination: the new fields, the result and the
\* plan attempts (calls of prepare_navigation_data) it made
set_destination(self, dest) ==
    IF LocationUnknown(self)
    THEN [self |-> self,
          ret |-> [Result("ERROR") EXCEPT !.message = "Current location is unknown. Scan a QR code first."],
          plans |-> <<>>]
    ELSE PlanOutcome(self, dest,
                     prepare_navigation_data(nodes, graph, location_database,
                                             self.current_location.location_id, dest))

\* self.current_path.index(location_id)
PathIndex(path, id) ==
    CHOOSE i \in 1..Len(path) : path[i] = id /\ \A j \in 1..(i - 1) : path[j] # id

InPath(path, id) == \E i \in 1..Len(path) : path[i] = id

\* `if self.destination_id:` in the place of `if self.current_path:`
PathActive_destination(self) == self.destination_id \notin {None, ""}

\* if self.current_path:
PathActive(self) == self.current_path # <<>>

\* the location's name compared with the destination id
AtDestination_name(self) == self.current_location.location_name = self.destination_id

\* the location compared with the first element of the path
AtDestination_first(self) ==
    self.current_location.location_id = self.current_path[1]

\* self.current_location.location_id == self.destination_id
AtDestination(self) == self.current_location.location_id = self.destination_id

\* membership tested in the graph, not in the path
OffTrack_graph(self) == self.current_location.location_id \notin DOMAIN graph

\* membership tested in the rest of the path, current_path[1:]
OffTrack_rest(self) ==
    ~InPath(SubSeq(self.current_path, 2, Len(self.current_path)),
            self.current_location.location_id)

\* self.current_location.location_id not in self.current_path
OffTrack(self) == ~InPath(self.current_path, self.current_location.location_id)

\* State 3 with the destination reported in the place of the next waypoint
NavigationStep_destination(self, corners, default) ==
    IF self.destination_id \in DOMAIN location_database
    THEN [Result("NAVIGATING") EXCEPT
             !.next_waypoint_name =
                 location_database[self.destination_id].location_name,
             !.corners = corners]
    ELSE default

\* the waypoint named is the one just confirmed, not the one after it
NavigationStep_current(self, corners, default) ==
    IF ~InPath(self.current_path, self.current_location.location_id)
    THEN [Result("ERROR") EXCEPT !.message = "Error during navigation step."]
    ELSE IF PathIndex(self.current_path, self.current_location.location_id) + 1
                <= Len(self.current_path)
    THEN [Result("NAVIGATING") EXCEPT
             !.next_waypoint_name = self.current_location.location_name,
             !.corners = corners]
    ELSE default

\* State 3 of _update_navigation_status (lines 130-150)
NavigationStep(self, corners, default) ==
    IF ~InPath(self.current_path, self.current_location.location_id)
    THEN \* list.index raises ValueError, caught at line 149
         [Result("ERROR") EXCEPT !.message = "Error during navigation step."]
    ELSE
    LET current_index == PathIndex(self.current_path, self.current_location.location_id)
    IN  IF current_index + 1 <= Len(self.current_path)
        THEN LET next_waypoint_id == self.current_path[current_index + 1]
             IN  IF next_waypoint_id \in DOMAIN location_database
                 THEN [Result("NAVIGATING") EXCEPT
                          !.next_waypoint_name =
                              location_database[next_waypoint_id].location_name,
                          !.corners = corners]
                 ELSE default
        ELSE default

\* State 2 of _update_navigation_status (lines 122-126): the result of the
\* re-planning call replan = set_destination(self.destination_id)
OffTrackOutcome(replan, corners) ==
    IF replan.ret.status = "PATH_READY"
    THEN [self |-> replan.self,
          ret |-> [Result("OFF_TRACK_RECALCULATED") EXCEPT
                      !.path = replan.ret.path,
                      !.corners = corners],
          plans |-> replan.plans]
    ELSE [self |-> replan.self,
          ret |-> [Result("OFF_TRACK_ERROR") EXCEPT
                      !.message = "Off track. Failed to recalculate.",
                      !.corners = corners],
          plans |-> replan.plans]

\* NavigationProcessor._update_navigation_status
_update_navigation_status(self, corners) ==
    IF LocationUnknown(self)
    THEN [self |-> self,
          ret |-> [Result("ERROR") EXCEPT !.message = "Critical: current_location is None."],
          plans |-> <<>>]
    ELSE LET default == [Result("LOCATION_CONFIRMED") EXCEPT
                            !.location_name = self.current_location.location_name,
                            !.location_id = self.current_location.location_id,
                            !.corners = corners]
         IN  IF ~PathActive(self)
             THEN [self |-> self, ret |-> default, plans |-> <<>>]
             ELSE IF AtDestination(self)
             THEN [self |-> self,
                   ret |-> [Result("ARRIVED") EXCEPT
                               !.location_name = self.current_location.location_name,
                               !.corners = corners],
                   plans |-> <<>>]
             ELSE IF OffTrack(self)
             THEN OffTrackOutcome(set_destination(self, self.destination_id), corners)
             ELSE [self |-> self,
                   ret |-> NavigationStep(self, corners, default),
                   plans |-> <<>>]

\* the location is only stored when none was known
is_new_location_first(self, location_info) == self.current_location = NoLocation

\* is_new_location (line 83)
is_new_location(self, location_info) ==
    \/ self.current_location = NoLocation
    \/ self.current_location.location_id # location_info.location_id

\* lines 83-86: the location is replaced only by a different one
UpdateLocation(self, location_info) ==
    IF is_new_location(self, location_info)
    THEN [self EXCEPT !.current_location = location_info]
    ELSE self

\* line 94: the result of _update_navigation_status is returned; confirmed
\* is the id of the location the frame showed
Confirmed(out, location_info) ==
    [self |-> out.self, ret |-> out.ret, plans |-> out.plans,
     confirmed |-> location_info.location_id]

\* lines 79-94: location_info is what the decoder read in the nearest marker
DecodedFrame(self, qr_corners, location_info) ==
    IF location_info = NoLocation
    THEN [self |-> self,
          ret |-> [Result("DETECTED") EXCEPT !.corners = qr_corners],
          plans |-> <<>>, confirmed |-> None]
    ELSE Confirmed(_update_navigation_status(UpdateLocation(self, location_info),
                                             qr_corners),
                   location_info)

\* lines 73-94: nearest_qr is the marker get_nearest_qr chose
NearestFrame(self, nearest_qr) ==
    IF nearest_qr = NoTarget
    THEN [self |-> self, ret |-> Result("SCANNING"),
          plans |-> <<>>, confirmed |-> None]
    ELSE DecodedFrame(self, nearest_qr.corners, read_qr_code(nearest_qr))

\* the exception leaves process_camera_frame: the caller gets no result
Caught_escapes(self) ==
    [self |-> self,
     ret |-> [Result("EXCEPTION") EXCEPT !.message = "An internal Python error occurred."],
     plans |-> <<>>, confirmed |-> None]

\* except Exception (lines 91-94)
Caught(self) ==
    [self |-> self,
     ret |-> [Result("ERROR") EXCEPT !.message = "An internal Python error occurred."],
     plans |-> <<>>, confirmed |-> None]

\* NavigationProcessor.process_camera_frame: the new fields, the result, the
\* plan attempts and the location id the frame confirmed (None if none)
process_camera_frame(self, frame) ==
    IF ~frame.buffer_ok
    THEN [self |-> self,
          ret |-> [Result("ERROR") EXCEPT !.message = "Incorrect buffer size."],
          plans |-> <<>>, confirmed |-> None]
    ELSE IF frame.raises THEN Caught(self)
    ELSE NearestFrame(self, get_nearest_qr(frame.targets))

(* ---------------- the session as a state machine ---------------- *)
DestinationIds == Universe \cup {"N_G_NOWHERE", ""}

\* the marker of a frame that is nearest: no marker has a smaller distance
\* estimate and no earlier marker has the same one (what the caller showed)
NearestShown(targets) ==
    IF targets = <<>> THEN NoTarget
    ELSE LET i == CHOOSE k \in 1..Len(targets) :
                   /\ \A j \in 1..Len(targets) :
                          targets[k].distance_estimate <= targets[j].distance_estimate
                   /\ \A j \in 1..(k - 1) :
                          targets[j].distance_estimate > targets[k].distance_estimate
         IN  targets[i]

\* the payload of the nearest marker is unreadable and that of some other
\* marker of the frame is readable
OtherReadable(targets, nearest) ==
    /\ nearest.payload = Unreadable
    /\ \E i \in 1..Len(targets) :
           targets[i].corners # nearest.corners /\ targets[i].payload # Unreadable

\* what the history keeps of a frame
FrameShown(frame) ==
    LET nearest == NearestShown(frame.targets)
    IN  [buffer_ok |-> frame.buffer_ok, raises |-> frame.raises,
         nearest_corners |-> nearest.corners,
         nearest_payload |-> nearest.payload,
         other_readable |-> OtherReadable(frame.targets, nearest)]

NoFrame ==
    [buffer_ok |-> FALSE, raises |-> FALSE, nearest_corners |-> NoCorners,
     nearest_payload |-> Unreadable, other_readable |-> FALSE]

NoCall ==
    [op |-> "init", destination_id |-> None, frame |-> NoFrame,
     confirmed |-> None, repeated |-> FALSE, dropped |-> FALSE, progress |-> 0,
     plans |-> <<>>, result |-> Result("NONE")]

Init ==
    /\ guidance = "session"
    /\ nodes \in Buildings
    /\ graph = _build_graph(nodes)
    /\ location_database = _build_location_database(nodes)
    /\ current_location = NoLocation
    /\ destination_id = None
    /\ current_path = <<>>
    /\ path_origin = None
    /\ call = NoCall
    /\ frames_after_arrival = 0

Install(self) ==
    /\ current_location' = self.current_location
    /\ destination_id' = self.destination_id
    /\ current_path' = self.current_path
    /\ path_origin' = self.path_origin

\* how far the user has come along the path by confirming its locations
\* one after the other: progress is the position in the path of the last
\* location confirmed, 1 when the path has just been planned, and 0 when
\* there is no path or a frame broke the order; a frame that confirms
\* nothing and returns SCANNING or DETECTED leaves it as it is
Progress(progress, path, out) ==
    IF progress = 0 THEN 0
    ELSE IF out.confirmed = None
    THEN (IF out.ret.status \in {"SCANNING", "DETECTED"} THEN progress ELSE 0)
    ELSE IF out.confirmed = path[progress] THEN progress
    ELSE IF progress < Len(path) /\ out.confirmed = path[progress + 1]
    THEN progress + 1
    ELSE 0

\* set_destination(dest) has returned out; dropped tells that the call
\* failed while a path was active, and stays until the next call
SetDestinationReturns(dest, out) ==
    /\ Install(out.self)
    /\ call' = [op |-> "set_destination", destination_id |-> dest,
                frame |-> NoFrame, confirmed |-> None, repeated |-> FALSE,
                dropped |-> current_path # <<>> /\ out.ret.status = "ERROR",
                progress |-> IF out.ret.status = "PATH_READY" THEN 1 ELSE 0,
                plans |-> out.plans, result |-> out.ret]
    /\ frames_after_arrival' = 0
    /\ UNCHANGED <<guidance, nodes, graph, location_database>>

\* the host calls set_destination(dest)
SetDestination(dest) == SetDestinationReturns(dest, set_destination(Self, dest))

\* process_camera_frame has returned out for the frame
ProcessCameraFrameReturns(frame, out) ==
    /\ Install(out.self)
    /\ call' = [op |-> "process_camera_frame", destination_id |-> None,
                frame |-> FrameShown(frame), confirmed |-> out.confirmed,
                repeated |-> /\ call.op = "process_camera_frame"
                             /\ out.confirmed # None
                             /\ call.confirmed = out.confirmed,
                dropped |-> call.dropped,
                progress |-> Progress(call.progress, current_path, out),
                plans |-> out.plans, result |-> out.ret]
    /\ frames_after_arrival' =
           IF frames_after_arrival > 0 THEN 2
           ELSE IF out.ret.status = "ARRIVED" THEN 1 ELSE 0
    /\ UNCHANGED <<guidance, nodes, graph, location_database>>

\* the host calls process_camera_frame with the frame
ProcessCameraFrame(frame) ==
    ProcessCameraFrameReturns(frame, process_camera_frame(Self, frame))

Next ==
    \/ \E dest \in DestinationIds : SetDestination(dest)
    \/ \E frame \in Frames : ProcessCameraFrame(frame)

Spec == Init /\ [][Next]_vars

(* ---------------- the planner on small graphs ---------------- *)
\* a RouteGuidance whose graph a caller assigned (guidance = "installed"),
\* or whose graph add_connection built from the nodes (guidance = "built")
FixtureOrder == <<"A", "B", "C", "D", "E">>

FixtureIds == {FixtureOrder[i] : i \in 1..MaxFixtureNodes}

\* node coordinates with the distances A-B 3, B-C 4, A-C 5, C-D 0
FixtureNodes ==
    [id \in FixtureIds |->
        CASE id = "A" -> <<0, 0>>
          [] id = "B" -> <<3 * CoordScale, 0>>
          [] id = "C" -> <<3 * CoordScale, 4 * CoordScale>>
          [] id = "D" -> <<3 * CoordScale, 4 * CoordScale>>
          [] OTHER    -> <<0, 4 * CoordScale>>]

FixtureWeights == {0, 3, 4}

FixturePairs == {p \in FixtureIds \X FixtureIds : StrRank(p[1]) < StrRank(p[2])}

\* the pairs of a set, as the list of connections in the order of the ids
RECURSIVE PairList(_)
PairList(pairs) ==
    IF pairs = {} THEN <<>>
    ELSE LET p == CHOOSE q \in pairs : \A r \in pairs :
                      \/ StrRank(q[1]) < StrRank(r[1])
                      \/ q[1] = r[1] /\ StrRank(q[2]) <= StrRank(r[2])
         IN  <<p>> \o PairList(pairs \ {p})

\* graph[loc1].append((loc2, dist)); graph[loc2].append((loc1, dist))
Connect(g, loc1, loc2, dist) ==
    [g EXCEPT ![loc1] = Append(@, <<loc2, dist>>),
              ![loc2] = Append(@, <<loc1, dist>>)]

\* a graph with the weights w on the listed pairs
RECURSIVE InstallGraph(_, _, _, _)
InstallGraph(g, w, reqs, i) ==
    IF i > Len(reqs) THEN g
    ELSE InstallGraph(Connect(g, reqs[i][1], reqs[i][2], w[reqs[i]]), w, reqs, i + 1)

InstalledGraphs ==
    UNION {{InstallGraph([id \in FixtureIds |-> <<>>], w, PairList(pairs), 1) :
                w \in [pairs -> FixtureWeights]} : pairs \in SUBSET FixturePairs}

BuiltGraphs ==
    {AddConnections([id \in FixtureIds |-> <<>>], FixtureNodes, PairList(pairs), 1) :
        pairs \in SUBSET FixturePairs}

\* _build_location_database for rooms named after their ids; the ids in
\* roomless are nodes without a room
FixtureDatabase(nds, roomless) ==
    [id \in DOMAIN nds \ roomless |->
        [location_id |-> id, location_name |-> id, coordinates |-> nds[id]]]

\* the ids the planner is asked about: the nodes, an unknown id, the
\* empty id and None
QueryIds == FixtureIds \cup {"Z", "", None}

\* angles are in hundredths of a degree
DegreeScale == 100

\* line 239: abs(angle_diff) < 10
AlignmentTolerance == 10 * DegreeScale

\* math.degrees(math.atan2(dy, dx)) for the offsets between the fixture
\* nodes, which are multiples of (3, 0), (0, 4) and (3, 4): the angle of
\* the 3-4-5 triangle is 53.13 degrees
atan2_degrees(dy, dx) ==
    IF dy = 0 THEN (IF dx >= 0 THEN 0 ELSE 180 * DegreeScale)
    ELSE IF dx = 0 THEN (IF dy > 0 THEN 90 * DegreeScale ELSE -90 * DegreeScale)
    ELSE IF dx > 0 THEN (IF dy > 0 THEN 5313 ELSE -5313)
    ELSE (IF dy > 0 THEN 180 * DegreeScale - 5313 ELSE 5313 - 180 * DegreeScale)

\* lines 131-134: the direction of a neighbour, from 0 to 360 degrees
DirectionAngle(p, np) ==
    IF atan2_degrees(np[2] - p[2], np[1] - p[1]) < 0
    THEN atan2_degrees(np[2] - p[2], np[1] - p[1]) + 360 * DegreeScale
    ELSE atan2_degrees(np[2] - p[2], np[1] - p[1])

\* line 120: the neighbours of loc_id in the graph
Connections(g, loc_id) ==
    IF loc_id \in DOMAIN g THEN {g[loc_id][i][1] : i \in 1..Len(g[loc_id])} ELSE {}

\* lines 123-135: the available_directions of the location loc_id
available_directions(nds, g, loc_id) ==
    [neighbor_id \in Connections(g, loc_id) \cap DOMAIN nds |->
        DirectionAngle(nds[loc_id], nds[neighbor_id])]

\* lines 225-229: the angle brought into -180 .. 180
RECURSIVE NormalizeAngle(_)
NormalizeAngle(angle_diff) ==
    IF angle_diff > 180 * DegreeScale THEN NormalizeAngle(angle_diff - 360 * DegreeScale)
    ELSE IF angle_diff < -180 * DegreeScale
    THEN NormalizeAngle(angle_diff + 360 * DegreeScale)
    ELSE angle_diff

Abs(x) == IF x < 0 THEN -x ELSE x

NoInstruction ==
    [action |-> None, angle |-> 0, distance |-> 0, direction_name |-> None]

\* lines 238-267: the NavigationInstruction for the normalized angle
Instruction(angle_diff, distance, target_direction) ==
    IF Abs(angle_diff) < AlignmentTolerance
    THEN [action |-> "go_straight", angle |-> 0, distance |-> distance,
          direction_name |-> target_direction]
    ELSE IF angle_diff > 0
    THEN [action |-> "turn_right", angle |-> Abs(angle_diff), distance |-> 0,
          direction_name |-> target_direction]
    ELSE [action |-> "turn_left", angle |-> Abs(angle_diff), distance |-> 0,
          direction_name |-> target_direction]

\* lines 231-236: the distance to the target
TargetDistance(nds, db, current_location_id, target_direction) ==
    IF current_location_id # target_direction /\ target_direction \in DOMAIN nds
    THEN EuclidDist(db[current_location_id].coordinates, nds[target_direction])
    ELSE 0

\* RouteGuidance.calculate_alignment_instruction; NoInstruction is None
calculate_alignment_instruction(nds, g, db, current_location_id, current_facing, target_direction) ==
    IF current_location_id \notin DOMAIN db THEN NoInstruction
    ELSE IF target_direction
                \notin DOMAIN available_directions(nds, g, current_location_id)
    THEN NoInstruction
    ELSE Instruction(
             NormalizeAngle(
                 available_directions(nds, g, current_location_id)[target_direction]
                     - current_facing),
             TargetDistance(nds, db, current_location_id, target_direction),
             target_direction)

\* the headings calculate_alignment_instruction is called with: they
\* differ from the directions of the fixture by exactly 10 degrees, by
\* less, by more, and by more than a full turn
Facings ==
    {f * DegreeScale : f \in {-270, 0, 43, 63, 79, 80, 81, 100, 350}}

NoPlannerCall ==
    [op |-> "init", start_id |-> None, end_id |-> None, path |-> <<>>,
     nav_data |-> NoNavData, current_facing |-> 0, instruction |-> NoInstruction]

PlannerInit ==
    /\ \/ /\ guidance = "installed"
          /\ graph \in InstalledGraphs
          /\ location_database = FixtureDatabase(FixtureNodes, {})
       \/ /\ guidance = "built"
          /\ graph \in BuiltGraphs
          /\ location_database \in
                 {FixtureDatabase(FixtureNodes, r) :
                      r \in {{}, {FixtureOrder[MaxFixtureNodes]}}}
    /\ nodes = FixtureNodes
    /\ current_location = NoLocation
    /\ destination_id = None
    /\ current_path = <<>>
    /\ path_origin = None
    /\ call = NoPlannerCall
    /\ frames_after_arrival = 0

\* a caller asks guidance.find_shortest_path(start_id, end_id)
FindShortestPath(start_id, end_id) ==
    /\ call.op = "init"
    /\ call' = [NoPlannerCall EXCEPT
                   !.op = "find_shortest_path",
                   !.start_id = start_id, !.end_id = end_id,
                   !.path = find_shortest_path(graph, start_id, end_id)]
    /\ UNCHANGED <<guidance, nodes, graph, location_database, current_location,
                   destination_id, current_path, path_origin, frames_after_arrival>>

\* a caller asks guidance.prepare_navigation_data(start_id, end_id)
PrepareNavigationData(start_id, end_id) ==
    /\ call.op = "init"
    /\ call' = [NoPlannerCall EXCEPT
                   !.op = "prepare_navigation_data",
                   !.start_id = start_id, !.end_id = end_id,
                   !.nav_data = prepare_navigation_data(nodes, graph, location_database,
                                                        start_id, end_id)]
    /\ UNCHANGED <<guidance, nodes, graph, location_database, current_location,
                   destination_id, current_path, path_origin, frames_after_arrival>>

\* a caller asks guidance.calculate_alignment_instruction(current_location_id,
\* current_facing, target_direction) of a guidance that built its graph
\* and its location database itself
CalculateAlignmentInstruction(current_location_id, current_facing, target_direction) ==
    /\ call.op = "init"
    /\ guidance = "built"
    /\ call' = [NoPlannerCall EXCEPT
                   !.op = "calculate_alignment_instruction",
                   !.start_id = current_location_id, !.end_id = target_direction,
                   !.current_facing = current_facing,
                   !.instruction =
                       calculate_alignment_instruction(nodes, graph, location_database,
                                                       current_location_id,
                                                       current_facing, target_direction)]
    /\ UNCHANGED <<guidance, nodes, graph, location_database, current_location,
                   destination_id, current_path, path_origin, frames_after_arrival>>

PlannerNext ==
    \/ \E start_id \in QueryIds : \E end_id \in QueryIds :
           FindShortestPath(start_id, end_id)
    \/ \E start_id \in QueryIds : \E end_id \in QueryIds :
           PrepareNavigationData(start_id, end_id)
    \/ \E current_location_id \in QueryIds : \E current_facing \in Facings :
           \E target_direction \in QueryIds :
               CalculateAlignmentInstruction(current_location_id, current_facing,
                                             target_direction)

PlannerSpec == PlannerInit /\ [][PlannerNext]_vars

(* ---------------- qr_detection.py: detect_qr_codes ---------------- *)
\* the default of the threshold parameter of is_duplicate, in pixels
DuplicateThreshold == 50

\* centers of markers: (0,0), (50,0), (30,40) and (80,40) have neighbours at
\* exactly 50 px, (40,30) is nearer than 50 px to three of the others
CenterPoints == {<<0, 0>>, <<30, 40>>, <<40, 30>>, <<50, 0>>, <<80, 40>>}

\* self.reference_size and self.reference_distance (lines 57-58)
reference_size == 200
reference_distance == 30

\* sizes in pixels estimate_distance is called with; the positive ones
\* divide reference_size * reference_distance, so that the float quotient
\* of line 200 is the integer quotient
PixelSizes == {-100, 0, 100, 120, 150, 200}

\* (width + height) / 2 of the markers pyzbar decodes
MarkerSizes == {100, 200}

\* the size taken for the distance: the distance grows with the size
estimate_distance_proportional(qr_size) ==
    IF qr_size <= 0 THEN Inf
    ELSE (qr_size * reference_distance) \div reference_size

\* QRDetectionModule.estimate_distance; Inf is float('inf')
estimate_distance(qr_size) ==
    IF qr_size <= 0 THEN Inf
    ELSE (reference_size * reference_distance) \div qr_size

\* a marker pyzbar decoded is [center, polygon, size]: size is avg_size
\* (line 155) and the polygon stands for everything else the QRTarget is
\* built from.
\* What decode() finds in the three preprocessed images of a frame
\* (enhanced, global threshold, adaptive threshold): at most MaxDecoded
\* markers in all, numbered in the order they are found
CenterLists(n) == [1..n -> CenterPoints \X MarkerSizes]

\* the markers lo+1 .. hi of the list cs of centers and sizes
MarkersOf(cs, lo, hi) ==
    [i \in 1..(hi - lo) |->
        [center |-> cs[lo + i][1], polygon |-> lo + i, size |-> cs[lo + i][2]]]

\* the ways the markers of the list cs are spread over the three images
DecodedImages(cs) ==
    UNION {{<<MarkersOf(cs, 0, a), MarkersOf(cs, a, b), MarkersOf(cs, b, Len(cs))>> :
               b \in a..Len(cs)} : a \in 0..Len(cs)}

\* (dx ** 2 + dy ** 2), the square of the distance of two centers
SquaredDistance(c1, c2) ==
    (c1[1] - c2[1]) * (c1[1] - c2[1]) + (c1[2] - c2[2]) * (c1[2] - c2[2])

\* a marker at exactly the threshold counted as a duplicate
is_duplicate_inclusive(target, existing) ==
    \E i \in 1..Len(existing) :
        SquaredDistance(target.center, existing[i].center)
            <= DuplicateThreshold * DuplicateThreshold

\* QRDetectionModule.is_duplicate: math.sqrt(d2) < threshold, which for
\* integer centers is d2 < threshold ** 2
is_duplicate(target, existing) ==
    \E i \in 1..Len(existing) :
        SquaredDistance(target.center, existing[i].center)
            < DuplicateThreshold * DuplicateThreshold

\* lines 155-174: the QRTarget of a decoded marker
QRTarget(qr) ==
    [center |-> qr.center, polygon |-> qr.polygon, size |-> qr.size,
     distance_estimate |-> estimate_distance(qr.size)]

\* lines 176-178: the target is appended unless it is a duplicate
AcceptTarget(detected_qrs, target) ==
    IF is_duplicate(target, detected_qrs) THEN detected_qrs
    ELSE Append(detected_qrs, target)

\* the loop `for qr in decoded` (lines 143-178)
RECURSIVE AcceptDecoded(_, _, _)
AcceptDecoded(detected_qrs, decoded, i) ==
    IF i > Len(decoded) THEN detected_qrs
    ELSE AcceptDecoded(AcceptTarget(detected_qrs, QRTarget(decoded[i])),
                       decoded, i + 1)

\* the markers of every image accepted: no break after the first image
\* that gave a marker
RECURSIVE DetectLoop_merged(_, _, _)
DetectLoop_merged(images, k, detected_qrs) ==
    IF k > Len(images) THEN detected_qrs
    ELSE DetectLoop_merged(images, k + 1, AcceptDecoded(detected_qrs, images[k], 1))

\* the loop `for processed in preprocessed_images` (lines 140-182), which
\* stops after the first image that gave a marker
RECURSIVE DetectLoop(_, _, _)
DetectLoop(images, k, detected_qrs) ==
    IF k > Len(images) \/ (k > 1 /\ detected_qrs # <<>>) THEN detected_qrs
    ELSE DetectLoop(images, k + 1, AcceptDecoded(detected_qrs, images[k], 1))

\* QRDetectionModule.detect_qr_codes
detect_qr_codes(images) == DetectLoop(images, 1, <<>>)

NoDetectorCall ==
    [op |-> "init", images |-> <<>>, targets |-> <<>>, nearest |-> NoTarget,
     qr_size |-> 0, distance |-> 0]

DetectorInit ==
    /\ guidance = "none"
    /\ nodes = FixtureNodes
    /\ graph = [id \in FixtureIds |-> <<>>]
    /\ location_database = FixtureDatabase(FixtureNodes, {})
    /\ current_location = NoLocation
    /\ destination_id = None
    /\ current_path = <<>>
    /\ path_origin = None
    /\ \E n \in 0..MaxDecoded : \E cs \in CenterLists(n) :
           \E im \in DecodedImages(cs) :
               call = [NoDetectorCall EXCEPT !.images = im]
    /\ frames_after_arrival = 0

\* the detector is given the frame
DetectQrCodes ==
    /\ call.op = "init"
    /\ call' = [call EXCEPT !.op = "detect_qr_codes",
                            !.targets = detect_qr_codes(call.images)]
    /\ UNCHANGED <<guidance, nodes, graph, location_database, current_location,
                   destination_id, current_path, path_origin, frames_after_arrival>>

\* get_nearest_qr is given the list detect_qr_codes returned
GetNearestQr ==
    /\ call.op = "detect_qr_codes"
    /\ call' = [call EXCEPT !.op = "get_nearest_qr",
                            !.nearest = get_nearest_qr(call.targets)]
    /\ UNCHANGED <<guidance, nodes, graph, location_database, current_location,
                   destination_id, current_path, path_origin, frames_after_arrival>>

\* estimate_distance is called with a size, whatever was called before
EstimateDistance(qr_size) ==
    /\ call' = [NoDetectorCall EXCEPT !.op = "estimate_distance",
                                      !.qr_size = qr_size,
                                      !.distance = estimate_distance(qr_size)]
    /\ UNCHANGED <<guidance, nodes, graph, location_database, current_location,
                   destination_id, current_path, path_origin, frames_after_arrival>>

DetectorNext ==
    \/ DetectQrCodes
    \/ GetNearestQr
    \/ \E qr_size \in PixelSizes : EstimateDistance(qr_size)

DetectorSpec == DetectorInit /\ [][DetectorNext]_vars

(* ======================= the claims ======================= *)
IsFrame(c) == c.op = "process_camera_frame"
IsSetDestination(c) == c.op = "set_destination"
Last(path) == path[Len(path)]
OffTrackStatuses == {"OFF_TRACK_RECALCULATED", "OFF_TRACK_ERROR"}

\* C1: a frame that confirms a location which is neither the destination
\* nor on the active path makes exactly one plan attempt from that location
\* to the unchanged destination, and either returns OFF_TRACK_RECALCULATED
\* with the new path (from the location to the destination) installed, or
\* OFF_TRACK_ERROR with no path; the old path never stays.
C1_OffTrackReplans ==
    [][ ( /\ IsFrame(call')
          /\ current_path # <<>>
          /\ call'.confirmed # None
          /\ call'.confirmed # destination_id
          /\ ~InPath(current_path, call'.confirmed) )
        => /\ destination_id' = destination_id
           /\ call'.plans = << <<call'.confirmed, destination_id>> >>
           /\ current_path' # current_path
           /\ \/ /\ call'.result.status = "OFF_TRACK_RECALCULATED"
                 /\ current_path' # <<>>
                 /\ call'.result.path = current_path'
                 /\ current_path'[1] = call'.confirmed
                 /\ Last(current_path') = destination_id
              \/ /\ call'.result.status = "OFF_TRACK_ERROR"
                 /\ current_path' = <<>> ]_vars

C1_Witness ==
    /\ IsFrame(call)
    /\ call.result.status = "OFF_TRACK_RECALCULATED"
    /\ Len(current_path) >= 2

\* C2: a non-empty current_path starts at the location that was current
\* when the path was computed and ends at destination_id.
C2_PathEndpoints ==
    current_path # <<>> =>
        /\ current_path[1] = path_origin
        /\ Last(current_path) = destination_id

C2_Witness ==
    /\ Len(current_path) >= 3
    /\ current_location.location_id # path_origin

\* C3: set_destination(id) with a known current location makes one plan
\* attempt from the current location to id and ends with PATH_READY and the
\* freshly computed path installed, or with ERROR and no path.
C3_SetDestinationPlans ==
    [][ (IsSetDestination(call') /\ current_location # NoLocation)
        => /\ call'.plans =
                  << <<current_location.location_id, call'.destination_id>> >>
           /\ destination_id' = call'.destination_id
           /\ \/ /\ call'.result.status = "PATH_READY"
                 /\ current_path' # <<>>
                 /\ current_path' = call'.result.path
                 /\ current_path'[1] = current_location.location_id
                 /\ Last(current_path') = call'.destination_id
              \/ /\ call'.result.status = "ERROR"
                 /\ current_path' = <<>> ]_vars

C3_Witness ==
    /\ IsSetDestination(call)
    /\ call.result.status = "PATH_READY"
    /\ Len(current_path) >= 2

\* C4: set_destination before any location was confirmed returns ERROR with
\* a message and changes nothing; the path is and stays empty.
C4_NoLocationNoPlan ==
    [][ (IsSetDestination(call') /\ current_location = NoLocation)
        => /\ call'.result.status = "ERROR"
           /\ call'.result.message # None
           /\ call'.plans = <<>>
           /\ current_path = <<>>
           /\ current_path' = <<>>
           /\ UNCHANGED <<destination_id, current_location>> ]_vars

C4_Witness ==
    /\ IsSetDestination(call)
    /\ current_location = NoLocation
    /\ call.result.status = "ERROR"

\* C5: with an active path, a frame that confirms the destination returns
\* ARRIVED; so does the first frame after a set_destination that succeeded
\* for the location already confirmed, when it confirms that location.
C5_ArrivedAtDestination ==
    [][ /\ ( /\ IsFrame(call')
             /\ current_path # <<>>
             /\ call'.confirmed # None
             /\ call'.confirmed = destination_id )
           => call'.result.status = "ARRIVED"
        /\ ( /\ IsSetDestination(call)
             /\ call.result.status = "PATH_READY"
             /\ call.destination_id = current_location.location_id
             /\ IsFrame(call')
             /\ call'.confirmed = current_location.location_id )
           => call'.result.status = "ARRIVED" ]_vars

C5_Witness ==
    /\ IsFrame(call)
    /\ call.result.status = "ARRIVED"
    /\ current_path = <<destination_id>>

C7_RepeatedFrameIdempotent ==
    [][ ( /\ IsFrame(call) /\ IsFrame(call')
          /\ call'.confirmed # None
          /\ call'.confirmed = call.confirmed )
        => /\ call'.plans = <<>>
           /\ UNCHANGED <<current_location, destination_id, current_path>> ]_vars

C7_Witness ==
    /\ call.repeated
    /\ call.result.status = "NAVIGATING"

\* a route from the location to the destination exists
RouteExists(from, to) ==
    prepare_navigation_data(nodes, graph, location_database, from, to).ok

\* C8 as stated: with a destination set and no path, a frame that confirms
\* a location from which a route to the destination exists makes a plan
\* attempt and installs the path from that location to the destination.
C8_PlansOnConfirmation ==
    [][ ( /\ IsFrame(call')
          /\ destination_id # None
          /\ current_path = <<>>
          /\ call'.confirmed # None
          /\ RouteExists(call'.confirmed, destination_id) )
        => /\ call'.plans = << <<call'.confirmed, destination_id>> >>
           /\ current_path' # <<>>
           /\ current_path'[1] = call'.confirmed
           /\ Last(current_path') = destination_id ]_vars

\* C8 (amended): with a destination set and no path, a frame that confirms
\* a location makes no plan attempt, returns LOCATION_CONFIRMED and leaves
\* the path empty and the destination as it is, also when a route exists.
C8_NoPlanOnConfirmation ==
    [][ ( /\ IsFrame(call')
          /\ destination_id # None
          /\ current_path = <<>>
          /\ call'.confirmed # None )
        => /\ call'.plans = <<>>
           /\ call'.result.status = "LOCATION_CONFIRMED"
           /\ current_path' = <<>>
           /\ destination_id' = destination_id ]_vars

C8_Witness ==
    /\ IsFrame(call)
    /\ call.confirmed # None
    /\ destination_id # None
    /\ current_path = <<>>
    /\ call.plans = <<>>
    /\ RouteExists(call.confirmed, destination_id)

\* C9: a frame in which the detector finds no marker returns SCANNING, one whose
\* nearest marker is unreadable returns DETECTED with that marker's
\* corners; both leave current_location, destination_id and current_path.
C9_ScanningAndDetected ==
    [][ (IsFrame(call') /\ call'.frame.buffer_ok /\ ~call'.frame.raises)
        => /\ call'.frame.nearest_corners = NoCorners
                  => /\ call'.result.status = "SCANNING"
                     /\ UNCHANGED <<current_location, destination_id, current_path>>
           /\ ( /\ call'.frame.nearest_corners # NoCorners
                /\ call'.frame.nearest_payload = Unreadable )
                  => /\ call'.result.status = "DETECTED"
                     /\ call'.result.corners = call'.frame.nearest_corners
                     /\ UNCHANGED <<current_location, destination_id, current_path>> ]_vars

C9_Witness ==
    /\ IsFrame(call)
    /\ call.result.status = "DETECTED"
    /\ call.frame.nearest_corners = 2
    /\ call.result.corners = 2
    /\ current_path # <<>>

\* C10: with no active path, a frame that confirms a location returns
\* LOCATION_CONFIRMED with the id and the name of that location, whether or
\* not a destination is set.
C10_LocationConfirmed ==
    [][ ( /\ IsFrame(call')
          /\ call'.confirmed # None
          /\ current_path = <<>> )
        => /\ call'.result.status = "LOCATION_CONFIRMED"
           /\ call'.result.location_id = call'.confirmed
           /\ current_location'.location_id = call'.confirmed
           /\ call'.result.location_name = current_location'.location_name ]_vars

C10_Witness ==
    /\ IsFrame(call)
    /\ call.result.status = "LOCATION_CONFIRMED"
    /\ call.result.location_id = current_location.location_id
    /\ destination_id \in Universe
    /\ current_location.location_id # destination_id

\* C11: with a path active, a frame that confirms a location which is on
\* the path and is not the destination returns NAVIGATING, names the
\* element of the path that follows the first occurrence of that location,
\* and leaves the path as it was.
C11_NavigatingNextWaypoint ==
    [][ ( /\ IsFrame(call')
          /\ current_path # <<>>
          /\ call'.confirmed # None
          /\ call'.confirmed # destination_id
          /\ InPath(current_path, call'.confirmed) )
        => /\ call'.result.status = "NAVIGATING"
           /\ PathIndex(current_path, call'.confirmed) < Len(current_path)
           /\ call'.result.next_waypoint_name =
                  RoomName(current_path[PathIndex(current_path, call'.confirmed) + 1])
           /\ current_path' = current_path
           /\ call'.plans = <<>> ]_vars

C11_Witness ==
    /\ IsFrame(call)
    /\ call.result.status = "NAVIGATING"
    /\ Len(current_path) >= 3
    /\ call.confirmed = current_path[1]
    /\ call.result.next_waypoint_name = RoomName(current_path[2])
    /\ call.result.next_waypoint_name # RoomName(destination_id)

\* C12: a frame whose buffer has the wrong size, or whose nearest marker
\* has an unreadable payload, is answered with a lesser status (SCANNING or
\* DETECTED), never with ERROR, and leaves the fields of the session as
\* they were.
C12_MalformedInputDegrades ==
    [][ ( /\ IsFrame(call')
          /\ \/ ~call'.frame.buffer_ok
             \/ /\ call'.frame.nearest_corners # NoCorners
                /\ call'.frame.nearest_payload = Unreadable )
        => /\ call'.result.status # "ERROR"
           /\ call'.result.status \in {"SCANNING", "DETECTED"}
           /\ UNCHANGED <<current_location, destination_id, current_path>> ]_vars

FrameStatuses ==
    {"SCANNING", "DETECTED", "LOCATION_CONFIRMED", "NAVIGATING",
     "OFF_TRACK_RECALCULATED", "OFF_TRACK_ERROR", "ARRIVED", "ERROR"}

\* C13: every call of process_camera_frame returns a result whose status
\* is one of the eight statuses, and a frame whose conversion or detection
\* raises is answered with status ERROR and a message.
C13_NoExceptionEscapes ==
    [][ IsFrame(call')
        => /\ call'.result.status \in FrameStatuses
           /\ call'.frame.raises
                  => /\ call'.result.status = "ERROR"
                     /\ call'.result.message # None ]_vars

C13_Witness ==
    /\ IsFrame(call)
    /\ call.frame.raises
    /\ call.result.status = "ERROR"
    /\ call.result.message # None
    /\ current_path # <<>>

(* ---------------- claims about the planner ---------------- *)
IsSearch(c) == c.op = "find_shortest_path"
IsPrepare(c) == c.op = "prepare_navigation_data"

HasEdge(g, u, v) == \E i \in 1..Len(g[u]) : g[u][i][1] = v

\* the weight of the edge u - v of g
EdgeWeight(g, u, v) ==
    g[u][CHOOSE i \in 1..Len(g[u]) : g[u][i][1] = v][2]

\* path is a walk of g: consecutive nodes are joined by an edge
IsWalk(g, path) ==
    /\ \A i \in 1..Len(path) : path[i] \in DOMAIN g
    /\ \A i \in 1..(Len(path) - 1) : HasEdge(g, path[i], path[i + 1])

RECURSIVE WalkWeight(_, _, _)
WalkWeight(g, path, i) ==
    IF i >= Len(path) THEN 0
    ELSE EdgeWeight(g, path[i], path[i + 1]) + WalkWeight(g, path, i + 1)

SetMin(S) == CHOOSE x \in S : \A y \in S : x <= y

\* the least summed weight over all simple paths from cur to end_id that
\* avoid the nodes in seen, by exhaustive search; Inf or more if none
RECURSIVE BestCost(_, _, _, _)
BestCost(g, cur, end_id, seen) ==
    IF cur = end_id THEN 0
    ELSE LET next == {i \in 1..Len(g[cur]) : g[cur][i][1] \notin seen \cup {cur}}
         IN  IF next = {} THEN Inf
             ELSE SetMin({g[cur][i][2] + BestCost(g, g[cur][i][1], end_id, seen \cup {cur}) :
                             i \in next})

Connected(g, a, b) == BestCost(g, a, b, {}) < Inf

\* C14: for two connected nodes of a graph with non-negative weights,
\* find_shortest_path returns a walk from the first to the second whose
\* summed weight is the least of all paths between them; on A-B (3),
\* B-C (4) the path from A to C is A, B, C.
C14_ShortestPathOptimal ==
    ( /\ IsSearch(call)
      /\ call.start_id \in DOMAIN graph
      /\ call.end_id \in DOMAIN graph
      /\ Connected(graph, call.start_id, call.end_id) )
    => /\ call.path # <<>>
       /\ call.path[1] = call.start_id
       /\ Last(call.path) = call.end_id
       /\ IsWalk(graph, call.path)
       /\ WalkWeight(graph, call.path, 1) = BestCost(graph, call.start_id, call.end_id, {})
       /\ ( /\ guidance = "installed"
            /\ call.start_id = "A" /\ call.end_id = "C"
            /\ graph["A"] = << <<"B", 3>> >>
            /\ graph["C"] = << <<"B", 4>> >> )
              => call.path = <<"A", "B", "C">>

\* the search preferred a detour to the direct edge, over an edge of weight 0
C14_Witness ==
    /\ IsSearch(call)
    /\ Len(call.path) = 3
    /\ HasEdge(graph, call.start_id, call.end_id)
    /\ WalkWeight(graph, call.path, 1) < EdgeWeight(graph, call.start_id, call.end_id)
    /\ EdgeWeight(graph, call.path[1], call.path[2]) = 0

\* C15: find_shortest_path from a node of the graph to itself returns the
\* path made of that node alone.
C15_SameNodePath ==
    ( /\ IsSearch(call)
      /\ call.start_id \in DOMAIN graph
      /\ call.end_id = call.start_id )
    => call.path = <<call.start_id>>

C15_Witness ==
    /\ IsSearch(call)
    /\ call.start_id \in DOMAIN graph
    /\ call.end_id = call.start_id
    /\ call.path = <<call.start_id>>
    /\ graph[call.start_id] # <<>>

\* C16: for two nodes of the graph that no path joins, find_shortest_path
\* returns None (no path at all, neither an empty nor a partial one).
C16_DisconnectedFails ==
    ( /\ IsSearch(call)
      /\ call.start_id \in DOMAIN graph
      /\ call.end_id \in DOMAIN graph
      /\ ~Connected(graph, call.start_id, call.end_id) )
    => call.path = <<>>

\* the start has neighbours, the end is in another component
C16_Witness ==
    /\ IsSearch(call)
    /\ call.start_id \in DOMAIN graph
    /\ call.end_id \in DOMAIN graph
    /\ ~Connected(graph, call.start_id, call.end_id)
    /\ graph[call.start_id] # <<>>
    /\ call.path = <<>>

\* C17: find_shortest_path with a start or an end that is not a node of
\* the graph returns None, also when the two are the same unknown id.
C17_AbsentEndpointFails ==
    ( /\ IsSearch(call)
      /\ call.start_id \notin DOMAIN graph \/ call.end_id \notin DOMAIN graph )
    => call.path = <<>>

C17_Witness ==
    /\ IsSearch(call)
    /\ call.start_id = "Z"
    /\ call.end_id = "Z"
    /\ call.path = <<>>

\* a query of prepare_navigation_data that cannot be planned: an id is
\* missing or empty, is not a key of the location database, is not a
\* node of the graph, or no path joins the two
Unplannable(start_id, end_id) ==
    \/ start_id \in {None, ""} \/ end_id \in {None, ""}
    \/ start_id \notin DOMAIN location_database
    \/ end_id \notin DOMAIN location_database
    \/ start_id \notin DOMAIN graph \/ end_id \notin DOMAIN graph
    \/ ~Connected(graph, start_id, end_id)

\* C18: prepare_navigation_data returns either None or a result with a
\* path from the current location to the destination, its total distance
\* and its instructions (one per leg, plus the start of a path of several
\* nodes and the arrival); it returns None exactly for the queries that
\* cannot be planned.
C18_NavDataCompleteOrNone ==
    IsPrepare(call)
    => /\ \/ call.nav_data = NoNavData
          \/ /\ call.nav_data.ok
             /\ call.nav_data.path # <<>>
             /\ call.nav_data.path[1] = call.start_id
             /\ Last(call.nav_data.path) = call.end_id
             /\ IsWalk(graph, call.nav_data.path)
             /\ call.nav_data.total_distance >= 0
             /\ Len(call.nav_data.instructions) =
                    IF Len(call.nav_data.path) = 1 THEN 1
                    ELSE Len(call.nav_data.path) + 1
       /\ Unplannable(call.start_id, call.end_id) <=> call.nav_data = NoNavData

\* a node of the graph that has no entry in the location database
C18_Witness ==
    /\ IsPrepare(call)
    /\ call.start_id \in DOMAIN graph
    /\ call.end_id \in DOMAIN graph \ DOMAIN location_database
    /\ Connected(graph, call.start_id, call.end_id)
    /\ call.nav_data = NoNavData

\* C19: on a graph that add_connection built from the nodes, the
\* total_distance of prepare_navigation_data is the sum of the weights of
\* the edges between consecutive nodes of the returned path, 0 for a path
\* of one node, and 7 from A to C on the graph A-B (3), B-C (4).
C19_TotalDistanceIsWeightSum ==
    ( /\ IsPrepare(call)
      /\ guidance = "built"
      /\ call.nav_data.ok )
    => /\ call.nav_data.total_distance = WalkWeight(graph, call.nav_data.path, 1)
       /\ Len(call.nav_data.path) = 1 => call.nav_data.total_distance = 0
       /\ ( /\ call.start_id = "A" /\ call.end_id = "C"
            /\ graph["A"] = << <<"B", 3 * CoordScale * WeightScale>> >>
            /\ graph["C"] = << <<"B", 4 * CoordScale * WeightScale>> >> )
              => /\ call.nav_data.path = <<"A", "B", "C">>
                 /\ call.nav_data.total_distance = 7 * CoordScale * WeightScale

C19_Witness ==
    /\ IsPrepare(call)
    /\ guidance = "built"
    /\ call.start_id = "A"
    /\ call.end_id = "C"
    /\ call.nav_data.ok
    /\ graph["A"] = << <<"B", 3 * CoordScale * WeightScale>> >>
    /\ graph["C"] = << <<"B", 4 * CoordScale * WeightScale>> >>
    /\ call.nav_data.path = <<"A", "B", "C">>
    /\ call.nav_data.total_distance = 7 * CoordScale * WeightScale

(* ---------------- claims about the detector ---------------- *)
IsDetect(c) == c.op = "detect_qr_codes"

\* the targets of the markers of the image im
TargetsOf(im) == [i \in 1..Len(im) |-> QRTarget(im[i])]

\* the targets of the first image in which decode() found any marker
FirstDecoded(images) ==
    IF images[1] # <<>> THEN TargetsOf(images[1])
    ELSE IF images[2] # <<>> THEN TargetsOf(images[2])
    ELSE TargetsOf(images[3])

Accepted(targets, m) == \E j \in 1..Len(targets) : targets[j] = m

\* some marker accepted before m has its center at a squared distance
\* from the center of m that is in the set of squares near
AcceptedNear(targets, m, near) ==
    \E j \in 1..Len(targets) :
        /\ targets[j].polygon < m.polygon
        /\ SquaredDistance(targets[j].center, m.center) \in near

WithinThreshold == 0..(DuplicateThreshold * DuplicateThreshold)
BelowThreshold == 0..(DuplicateThreshold * DuplicateThreshold - 1)

\* C20: in the output of detect_qr_codes a decoded marker is missing if
\* its center is within 50 px (50 px included) of a marker accepted before
\* it, and present, as it was decoded, if every marker accepted before it
\* is beyond 50 px.
C20_DuplicatesWithinThreshold ==
    IsDetect(call)
    => /\ \A i \in 1..Len(call.targets) :
              \E k \in 1..Len(FirstDecoded(call.images)) :
                  call.targets[i] = FirstDecoded(call.images)[k]
       /\ \A k \in 1..Len(FirstDecoded(call.images)) :
              Accepted(call.targets, FirstDecoded(call.images)[k])
                  <=> ~AcceptedNear(call.targets, FirstDecoded(call.images)[k],
                                    WithinThreshold)

\* C20 amended: a decoded marker is missing from the output if its center
\* is less than 50 px from a marker accepted before it, and present, as it
\* was decoded, if every marker accepted before it is at 50 px or more.
C20_DuplicatesBelowThreshold ==
    IsDetect(call)
    => /\ \A i \in 1..Len(call.targets) :
              \E k \in 1..Len(FirstDecoded(call.images)) :
                  call.targets[i] = FirstDecoded(call.images)[k]
       /\ \A k \in 1..Len(FirstDecoded(call.images)) :
              Accepted(call.targets, FirstDecoded(call.images)[k])
                  <=> ~AcceptedNear(call.targets, FirstDecoded(call.images)[k],
                                    BelowThreshold)

\* three markers decoded: the second at exactly 50 px of the first is
\* kept, the third, nearer than 50 px to one of them, is dropped
C20_Witness ==
    /\ IsDetect(call)
    /\ Len(FirstDecoded(call.images)) = 3
    /\ Len(call.targets) = 2
    /\ SquaredDistance(call.targets[1].center, call.targets[2].center)
           = DuplicateThreshold * DuplicateThreshold
    /\ call.targets[2].polygon = 2

IsNearest(c) == c.op = "get_nearest_qr"

\* C21: get_nearest_qr returns None for an empty list; for any other list
\* it returns a marker of the list whose distance estimate no marker of
\* the list undercuts, and of the markers with that estimate the first.
C21_NearestIsFirstMinimum ==
    IsNearest(call)
    => IF call.targets = <<>> THEN call.nearest = NoTarget
       ELSE \E k \in 1..Len(call.targets) :
                /\ call.nearest = call.targets[k]
                /\ \A j \in 1..Len(call.targets) :
                       call.targets[k].distance_estimate
                           <= call.targets[j].distance_estimate
                /\ \A j \in 1..(k - 1) :
                       call.targets[j].distance_estimate
                           > call.targets[k].distance_estimate

\* three markers, the second and the third equally near and nearer than
\* the first: the second is returned
C21_Witness ==
    /\ IsNearest(call)
    /\ Len(call.targets) = 3
    /\ call.targets[1].distance_estimate > call.targets[2].distance_estimate
    /\ call.targets[2].distance_estimate = call.targets[3].distance_estimate
    /\ call.nearest = call.targets[2]

\* C22: detect_qr_codes goes through the enhanced, the globally thresholded
\* and the adaptively thresholded image in that order and returns markers
\* of the first image in which decode() found any, in the order they were
\* found, beginning with the first one found; markers of later images are
\* not added; if no image gives a marker the result is the empty list.
C22_FirstVariantOnly ==
    IsDetect(call)
    => /\ (\A k \in 1..3 : call.images[k] = <<>>) => call.targets = <<>>
       /\ (\E k \in 1..3 : call.images[k] # <<>>)
              => /\ call.targets # <<>>
                 /\ call.targets[1] = FirstDecoded(call.images)[1]
       /\ \A i \in 1..Len(call.targets) :
              \E k \in 1..Len(FirstDecoded(call.images)) :
                  call.targets[i] = FirstDecoded(call.images)[k]
       /\ \A i \in 1..Len(call.targets) : \A j \in 1..Len(call.targets) :
              i < j => call.targets[i].polygon < call.targets[j].polygon

\* nothing in the enhanced image, two markers in the thresholded one and
\* a marker that is a duplicate of neither in the adaptively thresholded
\* one, which is not in the result
C22_Witness ==
    /\ IsDetect(call)
    /\ call.images[1] = <<>>
    /\ Len(call.images[2]) = 2
    /\ Len(call.images[3]) = 1
    /\ Len(call.targets) = 2
    /\ \A i \in 1..2 :
           SquaredDistance(call.targets[i].center, call.images[3][1].center)
               >= DuplicateThreshold * DuplicateThreshold

IsEstimate(c) == c.op = "estimate_distance"

\* C23: estimate_distance of a positive size is 200 * 30 / size, so that
\* of two positive sizes the larger one gets the strictly smaller
\* distance; a size of zero or less gets +infinity.
C23_DistanceDecreasesWithSize ==
    [][/\ IsEstimate(call')
          => /\ call'.qr_size <= 0 => call'.distance = Inf
             /\ call'.qr_size > 0
                    => /\ call'.distance < Inf
                       /\ call'.distance * call'.qr_size = 200 * 30
       /\ (IsEstimate(call) /\ IsEstimate(call')
               /\ 0 < call.qr_size /\ call.qr_size < call'.qr_size)
          => call'.distance < call.distance]_vars

\* a marker of 150 px is estimated at 40 cm, between the 30 cm of 200 px
\* and the 50 cm of 120 px
C23_Witness ==
    /\ IsEstimate(call)
    /\ call.qr_size = 150
    /\ call.distance = 40
    /\ estimate_distance(200) = 30
    /\ estimate_distance(120) = 50

IsAlign(c) == c.op = "calculate_alignment_instruction" /\ c.instruction # NoInstruction

\* the difference of the direction of the target and the heading, as the
\* angle of -180 .. 180 degrees that differs from it by full turns
BearingDelta(c) ==
    ((available_directions(nodes, graph, c.start_id)[c.end_id] - c.current_facing
          + 180 * DegreeScale) % (360 * DegreeScale)) - 180 * DegreeScale

\* C24: calculate_alignment_instruction tells to turn left or right, by
\* the absolute value of the normalized bearing delta, when that value
\* exceeds 10 degrees, and to go straight otherwise, also when it is
\* exactly 10 degrees.
C24_StraightUpToTenDegrees ==
    IsAlign(call)
    => IF Abs(BearingDelta(call)) > 10 * DegreeScale
       THEN /\ call.instruction.action \in {"turn_left", "turn_right"}
            /\ call.instruction.angle = Abs(BearingDelta(call))
       ELSE call.instruction.action = "go_straight"

(* ---------------- claims about the graph ---------------- *)
\* the add_connection requests that name the node u and whose two
\* endpoints are nodes of the building
RequestsAt(u) ==
    {i \in 1..Len(ConnectionRequests) :
        /\ u \in {ConnectionRequests[i][1], ConnectionRequests[i][2]}
        /\ ConnectionRequests[i][1] \in DOMAIN nodes
        /\ ConnectionRequests[i][2] \in DOMAIN nodes}

\* C25: the graph _build_graph built has the nodes of the building as its
\* keys; every edge u -> v has v among the keys and a reverse edge v -> u
\* of the same weight; a request for an edge with an endpoint that is not
\* a node adds nothing, so that a node has as many edges as there are
\* requests that name it and whose endpoints are both nodes.
C25_GraphUndirectedAndClosed ==
    guidance = "session"
    => /\ DOMAIN graph = DOMAIN nodes
       /\ \A u \in DOMAIN graph :
              /\ \A i \in 1..Len(graph[u]) :
                     /\ graph[u][i][1] \in DOMAIN graph
                     /\ \E j \in 1..Len(graph[graph[u][i][1]]) :
                            graph[graph[u][i][1]][j] = <<u, graph[u][i][2]>>
              /\ Len(graph[u]) = Cardinality(RequestsAt(u))

\* a building without N_G_STAIR_2: the requests that name it added
\* nothing, and N_G_STAIR_1 and N_G_SITTING_2 are joined both ways
C25_Witness ==
    /\ guidance = "session"
    /\ DOMAIN nodes = {"N_G_STAIR_1", "N_G_SITTING_2"}
    /\ Len(graph["N_G_STAIR_1"]) = 1
    /\ graph["N_G_STAIR_1"][1][1] = "N_G_SITTING_2"
    /\ Len(graph["N_G_SITTING_2"]) = 1
    /\ graph["N_G_SITTING_2"][1][1] = "N_G_STAIR_1"
    /\ call.op # "init"

(* ---------------- claims about the session as a whole ---------------- *)
\* C26: in every state of a session a non-empty current_path comes with a
\* current location and a destination id, a destination id comes with a
\* current location, and no step resets the current location to None.
C26_SessionInvariants ==
    [][/\ current_path # <<>>
          => current_location # NoLocation /\ destination_id # None
       /\ destination_id # None => current_location # NoLocation
       /\ current_path' # <<>>
          => current_location' # NoLocation /\ destination_id' # None
       /\ destination_id' # None => current_location' # NoLocation
       /\ current_location # NoLocation => current_location' # NoLocation]_vars

\* a frame is processed while a path is active
C26_Witness ==
    /\ IsFrame(call)
    /\ current_path # <<>>
    /\ current_location # NoLocation
    /\ destination_id # None
    /\ call.confirmed = None

\* C27: a set_destination call that fails while a path is active (its id
\* is not in the location database) returns ERROR, stores its id as the
\* destination and clears the path; from then on, until the next call of
\* set_destination, every frame that confirms a location returns
\* LOCATION_CONFIRMED and leaves the path empty.
C27_FailedDestinationDropsPath ==
    [][/\ ( /\ IsSetDestination(call')
            /\ current_path # <<>>
            /\ call'.destination_id \notin DOMAIN location_database )
          => /\ call'.result.status = "ERROR"
             /\ call'.dropped
             /\ destination_id' = call'.destination_id
             /\ current_path' = <<>>
       /\ ( /\ IsFrame(call')
            /\ call.dropped
            /\ call'.confirmed # None )
          => /\ call'.result.status = "LOCATION_CONFIRMED"
             /\ current_path' = <<>>
             /\ destination_id' = destination_id]_vars

\* after a path was dropped for the unknown id N_G_NOWHERE, a second frame
\* in a row confirms a location
C27_Witness ==
    /\ IsFrame(call)
    /\ call.dropped
    /\ call.repeated
    /\ call.result.status = "LOCATION_CONFIRMED"
    /\ destination_id = "N_G_NOWHERE"
    /\ current_path = <<>>

(* ---------------- claims about the paths of the planner ---------------- *)
\* C28: every search of find_shortest_path ends, also on graphs with
\* edges of weight zero and with cycles, and a path it returns starts
\* with start_id, ends with end_id, has no node twice and goes from node
\* to node along edges of the graph.
C28_PathWellFormed ==
    (IsSearch(call) /\ call.path # <<>>)
    => /\ call.path[1] = call.start_id
       /\ Last(call.path) = call.end_id
       /\ \A i \in 1..Len(call.path) : \A j \in 1..Len(call.path) :
              i # j => call.path[i] # call.path[j]
       /\ IsWalk(graph, call.path)

\* a triangle A, B, C whose edge A - B has weight zero: the search from A
\* to C ends and goes over B
C28_Witness ==
    /\ IsSearch(call)
    /\ call.path = <<"A", "B", "C">>
    /\ HasEdge(graph, "A", "C")
    /\ HasEdge(graph, "C", "A")
    /\ EdgeWeight(graph, "A", "B") = 0

\* C29: set_destination returns the path p it installed; from then on, as
\* long as the frames confirm the locations of p one after the other
\* (the same one again or the next one, frames that return SCANNING or
\* DETECTED in between), p stays the current path, a frame that confirms
\* a location before the last one returns NAVIGATING with the name of the
\* location that follows it in p, and the frame that confirms the last
\* one returns ARRIVED.
C29_ProgressAlongRoute ==
    [][/\ (IsSetDestination(call') /\ call'.result.status = "PATH_READY")
          => /\ current_path' = call'.result.path
             /\ call'.progress = 1
       /\ \A k \in 1..Len(current_path) :
              ( /\ IsFrame(call')
                /\ Len(current_path) >= 2
                /\ call.progress > 0
                /\ k \in {call.progress, call.progress + 1}
                /\ call'.confirmed = current_path[k] )
              => /\ current_path' = current_path
                 /\ call'.progress = k
                 /\ IF k < Len(current_path)
                    THEN /\ call'.result.status = "NAVIGATING"
                         /\ call'.result.next_waypoint_name
                                = RoomName(current_path[k + 1])
                    ELSE call'.result.status = "ARRIVED"]_vars

\* the third location of a path of three is confirmed after the second
\* (and the second after the first): ARRIVED
C29_Witness ==
    /\ IsFrame(call)
    /\ Len(current_path) = 3
    /\ call.progress = 3
    /\ call.confirmed = current_path[3]
    /\ call.result.status = "ARRIVED"

\* C30: of the markers of a frame only the nearest is given to the
\* decoder: if its payload is unreadable the frame returns DETECTED with
\* its corners and the current location stays as it is, whatever the other
\* markers show; if it is readable the current location is the location
\* it names.
C30_OnlyNearestDecoded ==
    [][ ( /\ IsFrame(call')
          /\ call'.frame.buffer_ok
          /\ ~call'.frame.raises
          /\ call'.frame.nearest_corners # NoCorners )
        => IF call'.frame.nearest_payload = Unreadable
           THEN /\ call'.result.status = "DETECTED"
                /\ call'.result.corners = call'.frame.nearest_corners
                /\ call'.confirmed = None
                /\ current_location' = current_location
           ELSE /\ call'.confirmed = call'.frame.nearest_payload
                /\ current_location'.location_id = call'.frame.nearest_payload
                /\ call'.result.status # "DETECTED" ]_vars

\* the nearest marker is unreadable and a farther one names a location
\* other than the current one: DETECTED
C30_Witness ==
    /\ IsFrame(call)
    /\ call.frame.nearest_payload = Unreadable
    /\ call.frame.nearest_corners = 2
    /\ call.frame.other_readable
    /\ call.result.status = "DETECTED"
    /\ current_location # NoLocation

====
